---- MODULE Spec2Model ----
(***************************************************************************)
(* A model of the paste.run Go client (src/client.go).                     *)
(*                                                                         *)
(* Spec     one Upload / UploadFile call: the caller's goroutine, the      *)
(*          producer goroutine that encodes the multipart body, the        *)
(*          io.Pipe between them, the payload source and the transport     *)
(*          that consumes the body inside client.Do.                       *)
(* SpecGet  one Get / GetLanguages call.                                   *)
(*                                                                         *)
(* Strings are sequences of one-character strings, so that the string      *)
(* functions of the code (Index, HasPrefix, ContainsAny, TrimSuffix,       *)
(* TrimSpace) are computed and not assumed.                                *)
(***************************************************************************)
EXTENDS Naturals, Sequences, FiniteSets, TLC

\* ------------------------------------------------------------------ bounds
\* Longest option list of a call.
MaxOpts == 2
\* Longest payload, in bytes.
MaxPayload == 3
\* Most bytes one Read of the payload source returns / one Read of the body takes.
MaxChunk == 2
\* Longest response body, in characters.
MaxBody == 2
\* Longest identifier part of a paste reference, in characters.
MaxId == 2

\* ----------------------------------------------------------------- strings
SeqsUpTo(S, n) == UNION {[1..k -> S] : k \in 0..n}

\* strings.HasPrefix
HasPrefix(s, p) == Len(s) >= Len(p) /\ SubSeq(s, 1, Len(p)) = p

\* strings.HasSuffix
HasSuffix(s, p) == Len(s) >= Len(p) /\ SubSeq(s, Len(s) - Len(p) + 1, Len(s)) = p

\* strings.Index(s, sub) != -1
Contains(s, sub) ==
  \E i \in 1..(Len(s) + 1) : i + Len(sub) - 1 <= Len(s) /\ SubSeq(s, i, i + Len(sub) - 1) = sub

\* strings.ContainsAny
ContainsAny(s, chars) == \E i \in 1..Len(s) : s[i] \in chars

\* Removes every trailing occurrence of the suffix (strings.TrimRight's way).
TrimSuffixAll(s, suf) ==
  LET RECURSIVE T(_)
      T(x) == IF Len(suf) > 0 /\ HasSuffix(x, suf) THEN T(SubSeq(x, 1, Len(x) - Len(suf))) ELSE x
  IN T(s)

\* strings.TrimSuffix: removes one occurrence of the suffix.
TrimSuffix(s, suf) == IF HasSuffix(s, suf) THEN SubSeq(s, 1, Len(s) - Len(suf)) ELSE s

\* White space as strings.TrimSpace sees it (one representative, the blank).
IsSpace(c) == c = " "

TrimLeft(s) ==
  LET RECURSIVE T(_)
      T(x) == IF Len(x) > 0 /\ IsSpace(x[1]) THEN T(Tail(x)) ELSE x
  IN T(s)

TrimRight(s) ==
  LET RECURSIVE T(_)
      T(x) == IF Len(x) > 0 /\ IsSpace(x[Len(x)]) THEN T(SubSeq(x, 1, Len(x) - 1)) ELSE x
  IN T(s)

TrimSpaceLeftOnly(s) == TrimLeft(s)

\* strings.TrimSpace
TrimSpace(s) == TrimRight(TrimLeft(s))

\* ------------------------------------------------------------------ errors
Err(kind, msg) == [kind |-> kind, msg |-> msg]
NoErr == Err("nil", <<>>)
EOF == Err("EOF", <<>>)
ErrClosedPipe == Err("io: read/write on closed pipe", <<>>)
\* The error a failing Read of the payload source returns.
SrcErr == Err("payload read error", <<>>)
ErrInvalidPaste == Err("errors.New", <<"invalid paste URL">>)
\* errors.New(text)
ErrorsNew(text) == Err("errors.New", text)
\* client.Do wraps the error that ended the request in a *url.Error.
UrlError(e) == Err("url.Error", <<e.kind>> \o e.msg)

\* ----------------------------------------------------------------- request
defaultBaseURL ==
  <<"h","t","t","p","s",":","/","/","a","p","i",".","p","a","s","t","e",".","r","u","n","/">>

\* A base URL http.NewRequest cannot parse: net/url rejects a control character.
CtlChar == "^"
BadBaseURL == <<"h", CtlChar>>

\* url.Parse inside http.NewRequest, as far as the model needs it.
URLParses(u) == ~ContainsAny(u, {CtlChar})

ZeroRequest ==
  [author |-> <<>>, title |-> <<>>, desc |-> <<>>, typ |-> <<>>, tok |-> <<>>,
   ctx |-> <<>>, client |-> <<>>, baseURL |-> <<>>, headers |-> <<>>, query |-> <<>>]

Opt(name, val) == [name |-> name, val |-> val]

\* Calling the closure an option constructor returned.
ApplyOption(r, o) ==
  CASE o.name = "Author"      -> [r EXCEPT !.author = o.val]
    [] o.name = "Title"       -> [r EXCEPT !.title = o.val]
    [] o.name = "Description" -> [r EXCEPT !.desc = o.val]
    [] o.name = "Type"        -> [r EXCEPT !.typ = o.val]
    [] o.name = "Token"       -> [r EXCEPT !.tok = o.val]
    [] o.name = "Context"     -> [r EXCEPT !.ctx = o.val]
    [] o.name = "Client"      -> [r EXCEPT !.client = o.val]
    [] o.name = "BaseURL"     -> [r EXCEPT !.baseURL = o.val]
    [] o.name = "Headers"     -> [r EXCEPT !.headers = o.val]
    [] o.name = "Query"       -> [r EXCEPT !.query = o.val]

\* The options applied last to first, so that the first of a field stays.
RECURSIVE ApplyOptionsFirstWins(_, _)
ApplyOptionsFirstWins(r, os) ==
  IF os = <<>> THEN r
  ELSE ApplyOptionsFirstWins(ApplyOption(r, os[Len(os)]), SubSeq(os, 1, Len(os) - 1))

\* for _, opt := range options { opt(req) }
RECURSIVE ApplyOptions(_, _)
ApplyOptions(r, os) ==
  IF os = <<>> THEN r ELSE ApplyOptions(ApplyOption(r, Head(os)), Tail(os))

\* url := req.baseURL; if url == "" { url = defaultBaseURL }
ResolveBaseURL(r) == IF r.baseURL = <<>> THEN defaultBaseURL ELSE r.baseURL

\* filepath.Base(path) of the file UploadFile opens.
FileName == <<"f">>

\* The options a modelled upload call is given.
UploadOptions ==
  {Opt("Author", <<"a">>), Opt("Title", <<"t">>), Opt("Title", <<>>),
   Opt("Description", <<"d">>), Opt("Type", <<"y">>),
   Opt("Context", <<"c">>), Opt("BaseURL", BadBaseURL)}

\* ------------------------------------------------------------ body content
\* What one Write to the conduit carries: a part header, a field value, a
\* payload byte, or the closing boundary.
Item(t, f, n, v) == [t |-> t, f |-> f, n |-> n, v |-> v]
HdrItem(f) == Item("hdr", f, 0, <<>>)
ValItem(f, v) == Item("val", f, 0, v)
DataItem(n) == Item("data", "file", n, <<>>)
EndItem == Item("end", "", 0, <<>>)

\* The payload: bytes 1..n, so that a dropped, repeated or reordered byte shows.
PayloadBytes(from, to) == [i \in 1..(to - from) |-> DataItem(from + i)]

FieldOrderSwapped == <<"title", "author", "desc", "type">>

\* The order of the if-statements that write the form fields.
FieldOrder == <<"author", "title", "desc", "type">>

\* req.<field> of a form field name
FieldValue(r, f) ==
  CASE f = "author" -> r.author
    [] f = "title"  -> r.title
    [] f = "desc"   -> r.desc
    [] f = "type"   -> r.typ

\* The program point after the field at index i of FieldOrder.
AfterField(i) == IF i < Len(FieldOrder) THEN FieldOrder[i + 1] ELSE "file"

FieldIndex(f) == CHOOSE i \in 1..Len(FieldOrder) : FieldOrder[i] = f

VARIABLES
  call,      \* the exported function called
  opts,      \* the options it was given
  paste,     \* Get: the paste reference
  req,       \* the request configuration
  pc,        \* the caller's goroutine: init, newreq, do, readall, returned
  requests,  \* the requests handed to client.Do
  resp,      \* the response client.Do returned
  ret,       \* what the call returned
  rerr,      \* io.Pipe: the read side's close error (NoErr: open)
  werr,      \* io.Pipe: the write side's close error (NoErr: open)
  pending,   \* io.Pipe: the bytes of the Write in progress not yet read
  ppc,       \* the producer goroutine's program point
  bodywClosed, \* the producer's flag of that name
  lastpart,  \* multipart.Writer: "none", "ok", or "failed" (its sticky write error is set)
  prodErr,   \* the error the producer passed to CloseWithError on a failure path
  nClose,    \* how many times the producer closed the write side
  payloadLen, \* the length of the payload the source holds
  srcPos,    \* the bytes the producer has read from the payload source
  srcStalled, \* the payload source blocks and will deliver nothing more
  fclosed,   \* UploadFile: the file was closed
  received,  \* the body bytes the transport has read
  seen,      \* how the transport's reading of the body ended (NoErr: it has not)
  cur,       \* the bytes of the Write in progress (its argument)
  wroteOK    \* the bytes of the Writes that returned without error

vars == <<call, opts, paste, req, pc, requests, resp, ret, rerr, werr, pending, ppc,
          bodywClosed, lastpart, prodErr, nClose, payloadLen, srcPos, srcStalled,
          fclosed, received, seen, cur, wroteOK>>

inputVars == <<call, opts, paste, payloadLen>>
callVars == <<req, pc, requests, resp, ret, fclosed>>
prodVars == <<ppc, bodywClosed, lastpart, prodErr, nClose, cur, wroteOK>>
srcVars == <<srcPos, srcStalled>>
consVars == <<received, seen>>

\* ---------------------------------------------------------------- io.Pipe
\* onceError.Store: the first error stored stays.
OnceStore(stored, e) == IF stored = NoErr THEN e ELSE stored

\* pipe.closeRead
CloseRead(stored, e) == OnceStore(stored, IF e = NoErr THEN ErrClosedPipe ELSE e)

\* pipe.closeWrite
CloseWrite(stored, e) == OnceStore(stored, IF e = NoErr THEN EOF ELSE e)

\* <-p.done is ready
PipeDone == rerr # NoErr \/ werr # NoErr

\* pipe.writeCloseError
WriteCloseError == IF werr = NoErr /\ rerr # NoErr THEN rerr ELSE ErrClosedPipe

\* pipe.readCloseError
ReadCloseError == IF rerr = NoErr /\ werr # NoErr THEN werr ELSE ErrClosedPipe

\* A conduit with a buffer: Write returns without waiting for a Read.
WriteReturnsBuffered(p, done) == IF done THEN "err" ELSE "ok"

\* pipe.write, given the bytes no Read has taken yet: it returns nil once every
\* byte was taken, an error when the pipe is done before that, and blocks otherwise.
WriteReturns(p, done) == IF p = <<>> THEN "ok" ELSE IF done THEN "err" ELSE "blocked"

\* ------------------------------------------------------------ the producer
At(at, sub) == [at |-> at, sub |-> sub]
Idle == At("idle", "")
Done == At("done", "")
InWrite == ppc.sub \in {"hdr", "val", "data", "end"}

FailCloseArgNil(e) == NoErr

\* The argument of bodyw.CloseWithError on the two failure paths.
FailCloseArg(e) == e

CopyResultIgnored(e) == NoErr

\* _, err = io.Copy(f, r)
CopyResult(e) == e

\* bodyw.CloseWithError(err); bodywClosed = true; return
FailPath(e) ==
  /\ werr' = CloseWrite(werr, FailCloseArg(e))
  /\ bodywClosed' = TRUE
  /\ prodErr' = e
  /\ nClose' = nClose + 1
  /\ ppc' = At("close", "")

\* The end of io.Copy: the failure path, or the fall through to the deferred function.
CopyEnds(e) ==
  IF CopyResult(e) # NoErr
  THEN FailPath(CopyResult(e))
  ELSE /\ ppc' = At("close", "")
       /\ UNCHANGED <<werr, bodywClosed, prodErr, nClose>>

\* if req.<f> != "" { w.WriteField(<f>, req.<f>) }: up to the Write of the part header.
PField(f) ==
  /\ ppc = At(f, "")
  /\ LET nxt == At(AfterField(FieldIndex(f)), "")
     IN IF FieldValue(req, f) = <<>> \/ lastpart = "failed" \/ PipeDone
        THEN ppc' = nxt /\ UNCHANGED <<pending, cur>>
        ELSE ppc' = At(f, "hdr") /\ pending' = <<HdrItem(f)>> /\ cur' = <<HdrItem(f)>>
  /\ UNCHANGED <<rerr, werr, bodywClosed, lastpart, prodErr, nClose, wroteOK>>
  /\ UNCHANGED <<inputVars, callVars, srcVars, consVars>>

\* w.WriteField: a Write of it returns; after the header's, the value is written.
PFieldWritten(f) ==
  /\ ppc.at = f /\ ppc.sub \in {"hdr", "val"}
  /\ WriteReturns(pending, PipeDone) # "blocked"
  /\ LET ok == WriteReturns(pending, PipeDone) = "ok"
         nxt == At(AfterField(FieldIndex(f)), "")
     IN /\ wroteOK' = IF ok THEN wroteOK \o cur ELSE wroteOK
        /\ IF ppc.sub = "hdr" /\ ok /\ ~PipeDone
           THEN /\ ppc' = At(f, "val")
                /\ lastpart' = "ok"
                /\ pending' = <<ValItem(f, FieldValue(req, f))>>
                /\ cur' = <<ValItem(f, FieldValue(req, f))>>
           ELSE /\ ppc' = nxt
                /\ pending' = <<>>
                /\ cur' = <<>>
                /\ lastpart' = IF ppc.sub = "hdr"
                               THEN (IF ok THEN "failed" ELSE lastpart)
                               ELSE (IF ok THEN lastpart ELSE "failed")
  /\ UNCHANGED <<rerr, werr, bodywClosed, prodErr, nClose>>
  /\ UNCHANGED <<inputVars, callVars, srcVars, consVars>>

\* f, err := w.CreateFormFile("file", "-"): up to the Write of the part header.
PCreateFormFile ==
  /\ ppc = At("file", "")
  /\ IF lastpart = "failed" \/ PipeDone
     THEN /\ FailPath(ErrClosedPipe)
          /\ UNCHANGED <<pending, cur>>
     ELSE /\ ppc' = At("file", "hdr")
          /\ pending' = <<HdrItem("file")>>
          /\ cur' = <<HdrItem("file")>>
          /\ UNCHANGED <<werr, bodywClosed, prodErr, nClose>>
  /\ UNCHANGED <<rerr, lastpart, wroteOK>>
  /\ UNCHANGED <<inputVars, callVars, srcVars, consVars>>

\* The header Write of CreateFormFile returns; io.Copy then calls r.Read.
PCreateFormFileReturn ==
  /\ ppc = At("file", "hdr")
  /\ WriteReturns(pending, PipeDone) # "blocked"
  /\ IF WriteReturns(pending, PipeDone) = "ok"
     THEN /\ ppc' = At("copy", "read")
          /\ lastpart' = "ok"
          /\ wroteOK' = wroteOK \o cur
          /\ UNCHANGED <<werr, bodywClosed, prodErr, nClose>>
     ELSE /\ FailPath(WriteCloseError)
          /\ UNCHANGED <<lastpart, wroteOK>>
  /\ pending' = <<>>
  /\ cur' = <<>>
  /\ UNCHANGED rerr
  /\ UNCHANGED <<inputVars, callVars, srcVars, consVars>>

\* io.Copy: r.Read returns k bytes, which are written to the file part.
SrcRead(k) ==
  /\ ppc = At("copy", "read")
  /\ ~srcStalled /\ ~fclosed
  /\ k >= 1 /\ srcPos + k <= payloadLen
  /\ srcPos' = srcPos + k
  /\ IF PipeDone
     THEN /\ lastpart' = "failed"
          /\ CopyEnds(WriteCloseError)
          /\ UNCHANGED <<pending, cur>>
     ELSE /\ ppc' = At("copy", "data")
          /\ pending' = PayloadBytes(srcPos, srcPos + k)
          /\ cur' = PayloadBytes(srcPos, srcPos + k)
          /\ UNCHANGED <<werr, bodywClosed, prodErr, nClose, lastpart>>
  /\ UNCHANGED <<rerr, wroteOK, srcStalled>>
  /\ UNCHANGED <<inputVars, callVars, consVars>>

\* io.Copy: r.Read returns io.EOF; Copy returns nil and the function returns.
SrcEOF ==
  /\ ppc = At("copy", "read")
  /\ ~srcStalled /\ ~fclosed
  /\ srcPos = payloadLen
  /\ ppc' = At("close", "")
  /\ UNCHANGED <<rerr, werr, pending, bodywClosed, lastpart, prodErr, nClose, cur, wroteOK>>
  /\ UNCHANGED <<inputVars, callVars, srcVars, consVars>>

\* io.Copy: r.Read returns an error (a closed file's Read does).
SrcFail ==
  /\ ppc = At("copy", "read")
  /\ ~srcStalled
  /\ CopyEnds(SrcErr)
  /\ UNCHANGED <<rerr, pending, lastpart, cur, wroteOK>>
  /\ UNCHANGED <<inputVars, callVars, srcVars, consVars>>

\* The payload source blocks for good (a connection or a terminal that sends nothing).
SrcStall ==
  /\ ppc = At("copy", "read")
  /\ ~srcStalled /\ ~fclosed
  /\ srcStalled' = TRUE
  /\ UNCHANGED srcPos
  /\ UNCHANGED <<rerr, werr, pending>>
  /\ UNCHANGED <<inputVars, callVars, prodVars, consVars>>

\* io.Copy: the Write of a chunk returns.
PCopyWritten ==
  /\ ppc = At("copy", "data")
  /\ WriteReturns(pending, PipeDone) # "blocked"
  /\ IF WriteReturns(pending, PipeDone) = "ok"
     THEN /\ ppc' = At("copy", "read")
          /\ wroteOK' = wroteOK \o cur
          /\ UNCHANGED <<werr, bodywClosed, prodErr, nClose, lastpart>>
     ELSE /\ lastpart' = "failed"
          /\ CopyEnds(WriteCloseError)
          /\ UNCHANGED wroteOK
  /\ pending' = <<>>
  /\ cur' = <<>>
  /\ UNCHANGED rerr
  /\ UNCHANGED <<inputVars, callVars, srcVars, consVars>>

\* A deferred function that closes the write side whatever bodywClosed says.
DeferredCloseAlways(e) ==
  /\ ppc' = Done
  /\ werr' = CloseWrite(werr, e)
  /\ bodywClosed' = TRUE
  /\ nClose' = nClose + 1

\* The deferred function, from the Write of the closing boundary on:
\* if !bodywClosed { bodyw.CloseWithError(err); bodywClosed = true }
DeferredClose(e) ==
  /\ ppc' = Done
  /\ IF ~bodywClosed
     THEN /\ werr' = CloseWrite(werr, e)
          /\ bodywClosed' = TRUE
          /\ nClose' = nClose + 1
     ELSE UNCHANGED <<werr, bodywClosed, nClose>>

\* The deferred function: err := w.Close(), up to the Write of the closing boundary.
PDeferClose ==
  /\ ppc = At("close", "")
  /\ IF lastpart = "failed" \/ PipeDone
     THEN /\ DeferredClose(ErrClosedPipe)
          /\ UNCHANGED <<pending, cur>>
     ELSE /\ ppc' = At("close", "end")
          /\ pending' = <<EndItem>>
          /\ cur' = <<EndItem>>
          /\ UNCHANGED <<werr, bodywClosed, nClose>>
  /\ UNCHANGED <<rerr, lastpart, prodErr, wroteOK>>
  /\ UNCHANGED <<inputVars, callVars, srcVars, consVars>>

\* The Write of the closing boundary returns and w.Close() with it.
PDeferCloseReturn ==
  /\ ppc = At("close", "end")
  /\ WriteReturns(pending, PipeDone) # "blocked"
  /\ DeferredClose(IF WriteReturns(pending, PipeDone) = "ok" THEN NoErr ELSE WriteCloseError)
  /\ wroteOK' = IF WriteReturns(pending, PipeDone) = "ok" THEN wroteOK \o cur ELSE wroteOK
  /\ pending' = <<>>
  /\ cur' = <<>>
  /\ UNCHANGED <<rerr, lastpart, prodErr>>
  /\ UNCHANGED <<inputVars, callVars, srcVars, consVars>>

\* --------------------------------------------------- the request and result
HeaderNames == {"Content-Type", "Authorization", "Accept", "X-Extra"}
Absent == <<"(absent)">>
NoHeaders == [k \in HeaderNames |-> Absent]

\* textproto.CanonicalMIMEHeaderKey, on the header names the modelled calls use.
CanonicalKey(k) ==
  CASE k = "content-type" -> "Content-Type"
    [] k = "AUTHORIZATION" -> "Authorization"
    [] OTHER -> k

\* A header map that keeps the value a name got first.
SetHeaderKeepFirst(h, k, v) ==
  IF h[CanonicalKey(k)] = Absent THEN [h EXCEPT ![CanonicalKey(k)] = v] ELSE h

\* http.Header.Set: the name is canonicalised, the value replaces what was there.
SetHeader(h, k, v) == [h EXCEPT ![CanonicalKey(k)] = v]

\* for i := 0; i+1 < len(req.headers); i += 2 { hr.Header.Set(req.headers[i], req.headers[i+1]) }
\* (i counts from 1 here.)
RECURSIVE ApplyHeaders(_, _, _)
ApplyHeaders(h, hs, i) ==
  IF i + 1 <= Len(hs) THEN ApplyHeaders(SetHeader(h, hs[i], <<hs[i + 1]>>), hs, i + 2) ELSE h

\* if req.tok != "" { hr.Header.Set("Authorization", "Bearer "+req.tok) }
ApplyToken(h, r) ==
  IF r.tok # <<>> THEN SetHeader(h, "Authorization", <<"Bearer ">> \o r.tok) ELSE h

\* w.FormDataContentType(): the boundary is the multipart writer's.
ContentType == <<"multipart/form-data; boundary=", "B">>

\* The request upload hands to client.Do.
UploadRequest(r) ==
  [method |-> "POST",
   url |-> ResolveBaseURL(r),
   header |-> ApplyToken(SetHeader(ApplyHeaders(NoHeaders, r.headers, 1),
                                   "Content-Type", ContentType), r),
   ctx |-> r.ctx]

\* time.Time{}: the zero time.
ZeroTime == [zero |-> TRUE, at |-> <<>>]

\* A zero PasteInfo that nevertheless carries the response body.
ZeroInfoOpenStream ==
  [Content |-> "resp.Body", Size |-> 0, Type |-> <<>>, Language |-> <<>>, Class |-> <<>>,
   Author |-> <<>>, Title |-> <<>>, Created |-> ZeroTime, Expires |-> ZeroTime]

\* PasteInfo{}: the zero value.
ZeroInfo ==
  [Content |-> "nil", Size |-> 0, Type |-> <<>>, Language |-> <<>>, Class |-> <<>>,
   Author |-> <<>>, Title |-> <<>>, Created |-> ZeroTime, Expires |-> ZeroTime]

\* A []LanguageInfo: nil, or a list.
NilLangs == [isNil |-> TRUE, list |-> <<>>]
Langs(l) == [isNil |-> FALSE, list |-> l]

\* The headers of a response that get reads; "" is what Header.Get gives for an absent one.
NoRespHeader ==
  [CreatedAt |-> <<>>, Expires |-> <<>>, ContentType |-> <<>>, PasteLanguage |-> <<>>,
   PasteClass |-> <<>>, CreatedBy |-> <<>>, PasteTitle |-> <<>>, ContentLength |-> 0]

\* What a call returned: kind is none (it has not), value, or panic.
NoRet == [kind |-> "none", url |-> <<>>, err |-> NoErr, info |-> ZeroInfo, langs |-> NilLangs]
RetUpload(url, e) == [NoRet EXCEPT !.kind = "value", !.url = url, !.err = e]
RetPanic == [NoRet EXCEPT !.kind = "panic"]

\* resp of client.Do; read tells how reading its body went: none, pending, ok, failed.
NoResp ==
  [status |-> 0, body |-> <<>>, read |-> "none", closed |-> FALSE, header |-> NoRespHeader]

UploadStatuses == {200, 201}
UploadBodies == {<<>>, <<"u">>, <<" ", "u", " ">>}

\* The status upload compares resp.StatusCode with.
StatusCreated == 201

\* result, err := ioutil.ReadAll(resp.Body) ... return strings.TrimSpace(string(result)), nil
UploadResult(status, body, readOK) ==
  IF ~readOK THEN RetUpload(<<>>, Err("response read error", <<>>))
  ELSE IF status # StatusCreated THEN RetUpload(<<>>, ErrorsNew(TrimSpace(body)))
  ELSE RetUpload(TrimSpace(body), NoErr)

DeferBodyrCloseMissing(stored) == stored

\* defer bodyr.Close()
DeferBodyrClose(stored) == CloseRead(stored, NoErr)

\* An upload that tries again when client.Do failed.
UploadReturnsRetry(r) ==
  IF pc = "do" /\ r.kind = "value" /\ r.err # NoErr
  THEN pc' = "newreq" /\ UNCHANGED <<ret, rerr, fclosed>>
  ELSE /\ pc' = "returned"
       /\ ret' = r
       /\ rerr' = DeferBodyrClose(rerr)
       /\ fclosed' = (call = "UploadFile")

\* upload returns r: the deferred bodyr.Close() runs, and UploadFile's f.Close().
UploadReturns(r) ==
  /\ pc' = "returned"
  /\ ret' = r
  /\ rerr' = DeferBodyrClose(rerr)
  /\ fclosed' = (call = "UploadFile")

\* ------------------------------------------------- the caller's goroutine
\* UploadFile: os.Open fails.
UploadFileOpenFails ==
  /\ pc = "init" /\ call = "UploadFile"
  /\ pc' = "returned"
  /\ ret' = RetUpload(<<>>, Err("open error", <<>>))
  /\ UNCHANGED <<req, requests, resp, fclosed>>
  /\ UNCHANGED <<inputVars, rerr, werr, pending, prodVars, srcVars, consVars>>

\* upload, to the go statement: the options are applied, the pipe and the
\* multipart writer are made, the producer is started.
UploadStart ==
  /\ pc = "init" /\ call \in {"Upload", "UploadFile"}
  /\ req' = ApplyOptions(IF call = "UploadFile"
                         THEN [ZeroRequest EXCEPT !.title = FileName]
                         ELSE ZeroRequest, opts)
  /\ pc' = "newreq"
  /\ ppc' = At(FieldOrder[1], "")
  /\ UNCHANGED <<requests, resp, ret, fclosed>>
  /\ UNCHANGED <<bodywClosed, lastpart, prodErr, nClose, cur, wroteOK>>
  /\ UNCHANGED <<inputVars, rerr, werr, pending, srcVars, consVars>>

\* upload, from http.NewRequest to the call of client.Do.
UploadNewRequest ==
  /\ pc = "newreq"
  /\ IF URLParses(ResolveBaseURL(req))
     THEN /\ pc' = "do"
          /\ requests' = Append(requests, UploadRequest(req))
          /\ UNCHANGED <<ret, rerr, fclosed>>
     ELSE /\ UploadReturns(RetUpload(<<>>, Err("parse error", <<>>)))
          /\ UNCHANGED requests
  /\ UNCHANGED <<req, resp>>
  /\ UNCHANGED <<inputVars, werr, pending, prodVars, srcVars, consVars>>

\* ------------------------------------------------ the transport (client.Do)
\* The transport reads k bytes of the request body.
ConsumerRead(k) ==
  /\ pc \in {"do", "readall"}
  /\ rerr = NoErr /\ seen = NoErr
  /\ k >= 1 /\ k <= Len(pending)
  /\ received' = received \o SubSeq(pending, 1, k)
  /\ pending' = SubSeq(pending, k + 1, Len(pending))
  /\ UNCHANGED <<seen, rerr, werr>>
  /\ UNCHANGED <<inputVars, callVars, prodVars, srcVars>>

\* The transport's Read of the body returns io.EOF: the body is sent.
ConsumerEOF ==
  /\ pc \in {"do", "readall"}
  /\ rerr = NoErr /\ seen = NoErr
  /\ werr = EOF
  /\ seen' = ReadCloseError
  /\ UNCHANGED <<received, rerr, werr, pending>>
  /\ UNCHANGED <<inputVars, callVars, prodVars, srcVars>>

\* The transport's Read of the body returns the producer's error: client.Do
\* returns it, and upload returns "", err.
DoBodyError ==
  /\ pc = "do"
  /\ rerr = NoErr /\ seen = NoErr
  /\ werr \notin {NoErr, EOF}
  /\ seen' = ReadCloseError
  /\ UploadReturns(RetUpload(<<>>, UrlError(ReadCloseError)))
  /\ UNCHANGED <<req, requests, resp, received, werr, pending>>
  /\ UNCHANGED <<inputVars, prodVars, srcVars>>

\* The same Read after the response has arrived: nothing is left to fail.
ConsumerErrorLate ==
  /\ pc = "readall"
  /\ rerr = NoErr /\ seen = NoErr
  /\ werr \notin {NoErr, EOF}
  /\ seen' = ReadCloseError
  /\ UNCHANGED <<received, rerr, werr, pending>>
  /\ UNCHANGED <<inputVars, callVars, prodVars, srcVars>>

\* The transport closes the request body, as a RoundTripper must once it is done
\* with it (after the last Read, or when it gives the request up).
TransportClosesBody ==
  /\ pc \in {"do", "readall"}
  /\ rerr = NoErr
  /\ rerr' = CloseRead(rerr, NoErr)
  /\ UNCHANGED <<werr, pending>>
  /\ UNCHANGED <<inputVars, callVars, prodVars, srcVars, consVars>>

\* client.Do returns a response: the server may answer before it has the whole body.
ServerResponds(status) ==
  /\ pc = "do"
  /\ pc' = "readall"
  /\ resp' = [NoResp EXCEPT !.status = status, !.read = "pending"]
  /\ UNCHANGED <<req, requests, ret, fclosed>>
  /\ UNCHANGED <<inputVars, rerr, werr, pending, prodVars, srcVars, consVars>>

\* client.Do returns an error: the connection failed.
TransportFails ==
  /\ pc = "do"
  /\ UploadReturns(RetUpload(<<>>, UrlError(Err("transport error", <<>>))))
  /\ UNCHANGED <<req, requests, resp>>
  /\ UNCHANGED <<inputVars, werr, pending, prodVars, srcVars, consVars>>

\* client.Do returns an error: the request's context was cancelled.
Canceled ==
  /\ pc = "do"
  /\ req.ctx # <<>>
  /\ UploadReturns(RetUpload(<<>>, UrlError(Err("context canceled", <<>>))))
  /\ UNCHANGED <<req, requests, resp>>
  /\ UNCHANGED <<inputVars, werr, pending, prodVars, srcVars, consVars>>

\* client.Do panics (a transport of the caller's): upload unwinds.
DoPanics ==
  /\ pc = "do"
  /\ UploadReturns(RetPanic)
  /\ UNCHANGED <<req, requests, resp>>
  /\ UNCHANGED <<inputVars, werr, pending, prodVars, srcVars, consVars>>

\* ioutil.ReadAll(resp.Body); resp.Body.Close(); the status check; return.
UploadReadAll(body, readOK) ==
  /\ pc = "readall"
  /\ resp' = [resp EXCEPT !.body = body, !.closed = TRUE,
                          !.read = IF readOK THEN "ok" ELSE "failed"]
  /\ UploadReturns(UploadResult(resp.status, body, readOK))
  /\ UNCHANGED <<req, requests>>
  /\ UNCHANGED <<inputVars, werr, pending, prodVars, srcVars, consVars>>

\* ------------------------------------------------------------ specification
InitCommon ==
  /\ req = ZeroRequest
  /\ pc = "init"
  /\ requests = <<>>
  /\ resp = NoResp
  /\ ret = NoRet
  /\ rerr = NoErr /\ werr = NoErr /\ pending = <<>>
  /\ ppc = Idle
  /\ bodywClosed = FALSE
  /\ lastpart = "none"
  /\ prodErr = NoErr
  /\ nClose = 0
  /\ srcPos = 0
  /\ srcStalled = FALSE
  /\ fclosed = FALSE
  /\ received = <<>>
  /\ seen = NoErr
  /\ cur = <<>>
  /\ wroteOK = <<>>

Init ==
  /\ call \in {"Upload", "UploadFile"}
  /\ opts \in SeqsUpTo(UploadOptions, MaxOpts)
  /\ paste = <<>>
  /\ payloadLen \in 0..MaxPayload
  /\ InitCommon

Producer ==
  \/ \E i \in 1..Len(FieldOrder) : PField(FieldOrder[i])
  \/ \E i \in 1..Len(FieldOrder) : PFieldWritten(FieldOrder[i])
  \/ PCreateFormFile
  \/ PCreateFormFileReturn
  \/ PCopyWritten
  \/ PDeferClose
  \/ PDeferCloseReturn

Source ==
  \/ \E k \in 1..MaxChunk : SrcRead(k)
  \/ SrcEOF
  \/ SrcFail
  \/ SrcStall

Transport ==
  \/ \E k \in 1..MaxChunk : ConsumerRead(k)
  \/ ConsumerEOF
  \/ DoBodyError
  \/ ConsumerErrorLate
  \/ TransportClosesBody
  \/ \E st \in UploadStatuses : ServerResponds(st)
  \/ TransportFails
  \/ Canceled
  \/ DoPanics

Caller ==
  \/ UploadFileOpenFails
  \/ UploadStart
  \/ UploadNewRequest
  \/ \E body \in UploadBodies, readOK \in BOOLEAN : UploadReadAll(body, readOK)

Next == Caller \/ Producer \/ Source \/ Transport

Spec == Init /\ [][Next]_vars

\* ------------------------------------------------------ Get, GetLanguages
\* const p = "https://www.paste.run/"
PastePrefix ==
  <<"h","t","t","p","s",":","/","/","w","w","w",".","p","a","s","t","e",".","r","u","n","/">>

SchemeSep == <<":", "/", "/">>
RawMarker == <<"?", "r", "a", "w">>

GetBadCharsNoQuery == {".", "/", "#"}

\* The characters of "./#?"
GetBadChars == {".", "/", "#", "?"}

\* paste[len(p):]
AfterPrefix(s) == SubSeq(s, Len(PastePrefix) + 1, Len(s))

FetchURLTrimAll(baseURL, id) == TrimSuffixAll(baseURL, <<"/">>) \o <<"/">> \o id \o RawMarker

\* strings.TrimSuffix(baseURL, "/") + "/" + id + "?raw"
FetchURL(baseURL, id) == TrimSuffix(baseURL, <<"/">>) \o <<"/">> \o id \o RawMarker

\* get: the validation of the reference and the fetch URL.
GetPasteURL(p, baseURL) ==
  IF Contains(p, SchemeSep)
  THEN IF ~HasPrefix(p, PastePrefix) \/ ContainsAny(AfterPrefix(p), GetBadChars)
       THEN [ok |-> FALSE, url |-> <<>>]
       ELSE [ok |-> TRUE, url |-> FetchURL(baseURL, AfterPrefix(p))]
  ELSE IF ContainsAny(p, GetBadChars)
       THEN [ok |-> FALSE, url |-> <<>>]
       ELSE [ok |-> TRUE, url |-> FetchURL(baseURL, p)]

\* The request get hands to client.Do.
GetRequest(r, u) ==
  [method |-> "GET", url |-> u,
   header |-> ApplyToken(ApplyHeaders(NoHeaders, r.headers, 1), r),
   ctx |-> r.ctx]

\* url.QueryEscape, on the characters the modelled queries use.
QueryEscape(q) ==
  LET RECURSIVE E(_)
      E(x) == IF x = <<>> THEN <<>>
              ELSE (CASE Head(x) = "+" -> <<"%", "2", "B">>
                      [] Head(x) = " " -> <<"+">>
                      [] OTHER -> <<Head(x)>>) \o E(Tail(x))
  IN E(q)

\* getLanguages: geturl
LanguagesURL(r) ==
  TrimSuffix(ResolveBaseURL(r), <<"/">>) \o <<"/", "l", "a", "n", "g", "u", "a", "g", "e", "s">>
    \o (IF r.query # <<>> THEN <<"?", "q", "=">> \o QueryEscape(r.query) ELSE <<>>)

\* The request getLanguages hands to client.Do.
LanguagesRequest(r) ==
  [method |-> "GET", url |-> LanguagesURL(r),
   header |-> ApplyToken(ApplyHeaders(SetHeader(NoHeaders, "Accept", <<"application/json">>),
                                      r.headers, 1), r),
   ctx |-> r.ctx]

RetGet(info, e) == [NoRet EXCEPT !.kind = "value", !.info = info, !.err = e]
RetLangs(l, e) == [NoRet EXCEPT !.kind = "value", !.langs = l, !.err = e]

\* A well-formed HTTP date, and header values that are none.
GoodDate == <<"Mon, 02 Jan 2006 15:04:05 GMT">>
HeaderDates == {<<>>, <<"tomorrow">>, GoodDate}

\* time.Parse(http.TimeFormat, v), its error dropped: the zero time when v does not parse.
ParseHTTPTime(v) == IF v = GoodDate THEN [zero |-> FALSE, at |-> v] ELSE ZeroTime

GetRespHeaders ==
  {[NoRespHeader EXCEPT !.CreatedAt = c, !.Expires = e, !.ContentType = <<"text/plain">>,
                        !.PasteLanguage = <<"go">>, !.PasteClass = <<".go">>,
                        !.CreatedBy = <<"chris">>, !.PasteTitle = <<"t">>,
                        !.ContentLength = 3] : c \in HeaderDates, e \in HeaderDates}

\* A PasteInfo whose two times are both zero as soon as one header does not parse.
InfoOfDatesTogether(h) ==
  LET both == h.CreatedAt = GoodDate /\ h.Expires = GoodDate
  IN [Content |-> "resp.Body", Size |-> h.ContentLength, Type |-> h.ContentType,
      Language |-> h.PasteLanguage, Class |-> h.PasteClass, Author |-> h.CreatedBy,
      Title |-> h.PasteTitle,
      Created |-> IF both THEN ParseHTTPTime(h.CreatedAt) ELSE ZeroTime,
      Expires |-> IF both THEN ParseHTTPTime(h.Expires) ELSE ZeroTime]

\* return PasteInfo{resp.Body, resp.ContentLength, ...}, nil
InfoOf(h) ==
  [Content |-> "resp.Body", Size |-> h.ContentLength, Type |-> h.ContentType,
   Language |-> h.PasteLanguage, Class |-> h.PasteClass, Author |-> h.CreatedBy,
   Title |-> h.PasteTitle, Created |-> ParseHTTPTime(h.CreatedAt),
   Expires |-> ParseHTTPTime(h.Expires)]

StatusOKCreated == 200 + 1

\* The status get and getLanguages compare resp.StatusCode with.
StatusOK == 200

GetStatuses == {200, 201, 404}
Bodies == SeqsUpTo({" ", "u"}, MaxBody)

\* The bodies of the modelled 200 responses to GetLanguages, and what
\* json.NewDecoder(resp.Body).Decode(&x) makes of each.
LangBodies == {<<"<html>">>, <<"{}">>, <<"{\"results\":[]}">>,
               <<"{\"q\":\"g\",\"results\":[{\"name\":\"Go\"},{\"name\":\"C\"}]}">>}
JSONDecode(body) ==
  CASE body = <<"{}">> -> [ok |-> TRUE, results |-> NilLangs]
    [] body = <<"{\"results\":[]}">> -> [ok |-> TRUE, results |-> Langs(<<>>)]
    [] body = <<"{\"q\":\"g\",\"results\":[{\"name\":\"Go\"},{\"name\":\"C\"}]}">>
         -> [ok |-> TRUE, results |-> Langs(<<"Go", "C">>)]
    [] OTHER -> [ok |-> FALSE, results |-> NilLangs]

\* The non-success branch: ioutil.ReadAll, resp.Body.Close, errors.New(TrimSpace(...)).
StatusError(body, readOK) ==
  IF readOK THEN ErrorsNew(TrimSpace(body)) ELSE Err("response read error", <<>>)

getVars == <<rerr, werr, pending, ppc, bodywClosed, lastpart, prodErr, nClose,
             srcPos, srcStalled, fclosed, received, seen, cur, wroteOK>>

\* get, to the call of client.Do.
GetStart ==
  /\ pc = "init" /\ call = "Get"
  /\ LET r == ApplyOptions(ZeroRequest, opts)
         u == GetPasteURL(paste, ResolveBaseURL(r))
     IN /\ req' = r
        /\ IF ~u.ok
           THEN /\ pc' = "returned"
                /\ ret' = RetGet(ZeroInfo, ErrInvalidPaste)
                /\ UNCHANGED requests
           ELSE IF ~URLParses(u.url)
           THEN /\ pc' = "returned"
                /\ ret' = RetGet(ZeroInfo, Err("parse error", <<>>))
                /\ UNCHANGED requests
           ELSE /\ pc' = "do"
                /\ requests' = Append(requests, GetRequest(r, u.url))
                /\ UNCHANGED ret
  /\ UNCHANGED <<resp, inputVars, getVars>>

\* getLanguages, to the call of client.Do.
LanguagesStart ==
  /\ pc = "init" /\ call = "GetLanguages"
  /\ LET r == ApplyOptions(ZeroRequest, opts)
     IN /\ req' = r
        /\ IF ~URLParses(LanguagesURL(r))
           THEN /\ pc' = "returned"
                /\ ret' = RetLangs(NilLangs, Err("parse error", <<>>))
                /\ UNCHANGED requests
           ELSE /\ pc' = "do"
                /\ requests' = Append(requests, LanguagesRequest(r))
                /\ UNCHANGED ret
  /\ UNCHANGED <<resp, inputVars, getVars>>

\* client.Do returns an error (the connection failed, or the context was cancelled).
GetDoFails(cancel) ==
  /\ pc = "do" /\ call \in {"Get", "GetLanguages"}
  /\ cancel => req.ctx # <<>>
  /\ pc' = "returned"
  /\ LET e == UrlError(Err(IF cancel THEN "context canceled" ELSE "transport error", <<>>))
     IN ret' = IF call = "Get" THEN RetGet(ZeroInfo, e) ELSE RetLangs(NilLangs, e)
  /\ UNCHANGED <<req, requests, resp, inputVars, getVars>>

\* get, from the return of client.Do with a response.
GetResponds(status, h, body, readOK) ==
  /\ pc = "do" /\ call = "Get"
  /\ pc' = "returned"
  /\ IF status # StatusOK
     THEN /\ resp' = [status |-> status, body |-> body, closed |-> TRUE, header |-> h,
                      read |-> IF readOK THEN "ok" ELSE "failed"]
          /\ ret' = RetGet(ZeroInfo, StatusError(body, readOK))
     ELSE /\ resp' = [status |-> status, body |-> body, closed |-> FALSE, header |-> h,
                      read |-> "none"]
          /\ ret' = RetGet(InfoOf(h), NoErr)
  /\ UNCHANGED <<req, requests, inputVars, getVars>>

\* getLanguages, from the return of client.Do with a response.
LanguagesResponds(status, body, readOK) ==
  /\ pc = "do" /\ call = "GetLanguages"
  /\ pc' = "returned"
  /\ resp' = [status |-> status, body |-> body, closed |-> TRUE, header |-> NoRespHeader,
              read |-> IF readOK THEN "ok" ELSE "failed"]
  /\ IF status # StatusOK
     THEN ret' = RetLangs(NilLangs, StatusError(body, readOK))
     ELSE IF readOK /\ JSONDecode(body).ok
          THEN ret' = RetLangs(JSONDecode(body).results, NoErr)
          ELSE ret' = RetLangs(NilLangs, Err("decode error", <<>>))
  /\ UNCHANGED <<req, requests, inputVars, getVars>>

\* The references a modelled Get call is given: a bare identifier, or one after
\* the paste host's prefix, another host's, another scheme's, or a prefix that
\* only contains the paste host's.
IdChars == {"a", ":", ".", "/", "#", "?"}
RefPrefixes ==
  {<<>>, PastePrefix, <<"x">> \o PastePrefix,
   <<"h","t","t","p",":","/","/","w","w","w",".","p","a","s","t","e",".","r","u","n","/">>,
   <<"h","t","t","p","s",":","/","/","e","v","i","l",".","e","x","a","m","p","l","e","/">>}
Refs == {p \o i : p \in RefPrefixes, i \in SeqsUpTo(IdChars, MaxId)}

BaseURLs == {<<"h", ":", "/", "/", "b">>, <<"h", ":", "/", "/", "b", "/">>,
             <<"h", ":", "/", "/", "b", "/", "/">>, BadBaseURL}

\* The options a modelled Get or GetLanguages call is given.
GetOptions ==
  {Opt("BaseURL", b) : b \in BaseURLs} \cup {Opt("Context", <<"c">>), Opt("Query", <<"c", "+">>)}

InitGet ==
  /\ \/ call = "Get" /\ paste \in Refs
     \/ call = "GetLanguages" /\ paste = <<>>
  /\ opts \in SeqsUpTo(GetOptions, MaxOpts)
  /\ payloadLen = 0
  /\ InitCommon

NextGet ==
  \/ GetStart
  \/ LanguagesStart
  \/ \E cancel \in BOOLEAN : GetDoFails(cancel)
  \/ \E h \in GetRespHeaders, body \in Bodies : GetResponds(StatusOK, h, body, TRUE)
  \/ \E st \in GetStatuses \ {StatusOK}, body \in Bodies, readOK \in BOOLEAN :
       GetResponds(st, NoRespHeader, body, readOK)
  \/ \E st \in GetStatuses, body \in Bodies \cup LangBodies, readOK \in BOOLEAN :
       LanguagesResponds(st, body, readOK)

SpecGet == InitGet /\ [][NextGet]_vars

\* ------------------------------------------- the options, as the caller makes them
\* A Headers option that takes any list.
HeadersInvalidNever(h) == FALSE

\* if len(headers)%2 != 0 { panic("invalid headers") }
HeadersInvalid(h) == Len(h) % 2 # 0

\* What the caller sees of the panic of Headers.
HeadersPanic == [NoRet EXCEPT !.kind = "panic", !.err = Err("panic", <<"invalid headers">>)]

\* The header lists a modelled Headers option is made of.
HeaderLists ==
  {<<>>, <<"X-Extra", "1">>, <<"content-type", "x">>, <<"Content-Type", "x", "AUTHORIZATION", "y">>,
   <<"Authorization", "y">>, <<"X-Extra">>, <<"Authorization", "y", "Content-Type">>}

\* The option constructor calls of the modelled callers.
ReqOptions ==
  {Opt("Author", <<"a">>), Opt("Author", <<"b">>), Opt("Title", <<"t">>), Opt("Title", <<>>),
   Opt("Description", <<"d">>), Opt("Type", <<"y">>), Opt("Token", <<"k">>), Opt("Token", <<>>),
   Opt("Context", <<"c">>), Opt("Client", <<"h">>), Opt("BaseURL", <<"h", ":", "/", "/", "b">>),
   Opt("BaseURL", BadBaseURL), Opt("Query", <<"q">>)}
    \cup {Opt("Headers", h) : h \in HeaderLists}

\* The caller evaluates one more option argument: the constructor returns the
\* closure, or Headers panics and the call is never made.
MakeOption(o) ==
  /\ pc = "args"
  /\ Len(opts) < MaxOpts
  /\ IF o.name = "Headers" /\ HeadersInvalid(o.val)
     THEN /\ pc' = "returned"
          /\ ret' = HeadersPanic
          /\ UNCHANGED opts
     ELSE /\ opts' = Append(opts, o)
          /\ UNCHANGED <<pc, ret>>
  /\ UNCHANGED <<call, paste, payloadLen, req, requests, resp, fclosed>>
  /\ UNCHANGED <<rerr, werr, pending, prodVars, srcVars, consVars>>

\* The arguments are evaluated: Upload, UploadFile, Get or GetLanguages is entered.
CallEntered ==
  /\ pc = "args"
  /\ pc' = "init"
  /\ UNCHANGED <<req, requests, resp, ret, fclosed>>
  /\ UNCHANGED <<inputVars, rerr, werr, pending, prodVars, srcVars, consVars>>

\* A call from the evaluation of its arguments to the hand-over of the request
\* to client.Do.
InitReq ==
  /\ \/ call \in {"Upload", "UploadFile", "GetLanguages"} /\ paste = <<>>
     \/ call = "Get" /\ paste = <<"a">>
  /\ opts = <<>>
  /\ payloadLen = 0
  /\ req = ZeroRequest
  /\ pc = "args"
  /\ requests = <<>>
  /\ resp = NoResp
  /\ ret = NoRet
  /\ rerr = NoErr /\ werr = NoErr /\ pending = <<>>
  /\ ppc = Idle
  /\ bodywClosed = FALSE
  /\ lastpart = "none"
  /\ prodErr = NoErr
  /\ nClose = 0
  /\ srcPos = 0
  /\ srcStalled = FALSE
  /\ fclosed = FALSE
  /\ received = <<>>
  /\ seen = NoErr
  /\ cur = <<>>
  /\ wroteOK = <<>>

NextReq ==
  \/ \E o \in ReqOptions : MakeOption(o)
  \/ CallEntered
  \/ UploadFileOpenFails
  \/ UploadStart
  \/ UploadNewRequest
  \/ GetStart
  \/ LanguagesStart

SpecReq == InitReq /\ [][NextReq]_vars

\* ------------------------------------------------- the four calls together
\* The options, references and payload lengths of the modelled calls.
CallOptions == {Opt("Context", <<"c">>), Opt("BaseURL", BadBaseURL), Opt("Author", <<"a">>)}
CallRefs == {<<"a">>, <<"?">>}
CallPayloads == {0, 1}

InitCalls ==
  /\ \/ call \in {"Upload", "UploadFile"} /\ paste = <<>> /\ payloadLen \in CallPayloads
     \/ call = "Get" /\ paste \in CallRefs /\ payloadLen = 0
     \/ call = "GetLanguages" /\ paste = <<>> /\ payloadLen = 0
  /\ opts \in SeqsUpTo(CallOptions, MaxOpts)
  /\ InitCommon

\* The steps of upload and its goroutine belong to an Upload or UploadFile call.
NextCalls ==
  \/ call \in {"Upload", "UploadFile"} /\ Next
  \/ NextGet

SpecCalls == InitCalls /\ [][NextCalls]_vars

\* ------------------------------------------------------------------ claims
IsPrefix(a, b) == Len(a) <= Len(b) /\ SubSeq(b, 1, Len(a)) = a
IsSuffix(a, b) == Len(a) <= Len(b) /\ SubSeq(b, Len(b) - Len(a) + 1, Len(b)) = a

\* The value the last option of that name gave, or what the call pre-filled.
LastOption(os, name, prefilled) ==
  LET S == {i \in 1..Len(os) : os[i].name = name}
  IN IF S = {} THEN prefilled ELSE os[CHOOSE i \in S : \A j \in S : j <= i].val

\* One form field of the body, present when its value is not empty.
FieldPart(f, v) == IF v = <<>> THEN <<>> ELSE <<HdrItem(f), ValItem(f, v)>>

\* The canonical body of the call: author, title, desc, type, the file part, the end.
Canonical ==
  FieldPart("author", LastOption(opts, "Author", <<>>))
    \o FieldPart("title", LastOption(opts, "Title",
                                     IF call = "UploadFile" THEN FileName ELSE <<>>))
    \o FieldPart("desc", LastOption(opts, "Description", <<>>))
    \o FieldPart("type", LastOption(opts, "Type", <<>>))
    \o <<HdrItem("file")>>
    \o [i \in 1..payloadLen |-> DataItem(i)]
    \o <<EndItem>>

\* s without its leading and trailing blanks, said without recursion.
Trimmed(s) ==
  LET N == {i \in 1..Len(s) : s[i] # " "}
  IN IF N = {} THEN <<>>
     ELSE SubSeq(s, CHOOSE i \in N : \A j \in N : i <= j, CHOOSE i \in N : \A j \in N : j <= i)

Uploading == call \in {"Upload", "UploadFile"} /\ ppc # Idle
CancelError == UrlError(Err("context canceled", <<>>))

\* C1: whenever upload has returned, by whichever route, the read end of the
\* conduit is closed: a producer blocked in a Write with unread bytes can go on
\* and its Write returns an error, and no bytes wait in the conduit otherwise.
C1_ReadEndClosedAtReturn ==
  (pc = "returned" /\ Uploading) =>
    /\ rerr # NoErr
    /\ InWrite => ENABLED Producer
    /\ (InWrite /\ pending # <<>>) => WriteReturns(pending, PipeDone) = "err"
    /\ ~InWrite => pending = <<>>

\* C1 witness: upload returned a transport error while the producer was blocked
\* in a Write whose bytes nobody had read.
C1_Witness ==
  /\ pc = "returned" /\ InWrite /\ pending # <<>>
  /\ ret.err = UrlError(Err("transport error", <<>>))

\* C2 (the claim as made): after a cancellation has ended the call, the call has
\* returned an error and the producer is not left suspended: neither in a Write
\* to the conduit nor in a Read of a payload source that delivers nothing.
C2_CancelTerminatesProducer ==
  (pc = "returned" /\ Uploading /\ ret.err = CancelError) =>
    /\ ret.url = <<>>
    /\ InWrite => ENABLED Producer
    /\ ~(ppc = At("copy", "read") /\ srcStalled)

\* C3 (the claim as made): the producer's failure closes the conduit with its
\* error, the transport never sees a clean end after it, and an upload that
\* returns after the payload source failed returns an error and never a URL.
\* (The claim asks more, an error derived from that failure; already this fails.)
C3_Original ==
  /\ [](prodErr # NoErr => werr = prodErr /\ seen \in {NoErr, prodErr})
  /\ [][(pc # "returned" /\ pc' = "returned" /\ ret'.kind = "value" /\ prodErr = SrcErr)
          => (ret'.err # NoErr /\ ret'.url = <<>>)]_vars

\* C3 (amended): the producer's failure closes the conduit with its error; a Read
\* of the transport after it gives that error and never a clean end; and when
\* that Read is what ended client.Do, upload returns the error derived from it
\* and no URL.
C3_FailureReachesConsumer ==
  /\ prodErr # NoErr => werr = prodErr /\ seen \in {NoErr, prodErr}
  /\ (pc = "returned" /\ Uploading /\ seen \notin {NoErr, EOF} /\ resp.read = "none")
       => ret = RetUpload(<<>>, UrlError(seen))

\* C3 witness: the payload source failed after part of the payload was sent, and
\* upload returned the error derived from that.
C3_Witness ==
  /\ pc = "returned" /\ prodErr = SrcErr /\ seen = SrcErr
  /\ srcPos > 0 /\ srcPos < payloadLen
  /\ ret = RetUpload(<<>>, UrlError(SrcErr))

\* C4: the bytes written and not yet read are those of the one Write in progress,
\* at most one chunk whatever the payload's size, and no Write has returned nil
\* before the transport had read its bytes.
C4_OneWritePending ==
  /\ IsSuffix(pending, cur)
  /\ Len(cur) <= (IF MaxChunk > 1 THEN MaxChunk ELSE 1)
  /\ IsPrefix(wroteOK, received)
  /\ (InWrite /\ ~PipeDone) =>
       received = wroteOK \o SubSeq(cur, 1, Len(cur) - Len(pending))
  /\ ~InWrite => cur = <<>>

\* C4 witness: a payload longer than one chunk, the producer blocked in the Write
\* of a chunk the transport has read only in part.
C4_Witness ==
  /\ ppc = At("copy", "data") /\ ~PipeDone
  /\ payloadLen > MaxChunk
  /\ pending # <<>> /\ Len(pending) < Len(cur)

\* C5: what the transport has read of the body is a prefix of the canonical body
\* of the call, in every state and for every order of the options.
C5_ReceivedIsCanonicalPrefix == IsPrefix(received, Canonical)

\* C5 witness: the options came in another order than the fields are written, and
\* the transport has read the whole body.
C5_Witness ==
  /\ call = "UploadFile"
  /\ opts = <<Opt("Type", <<"y">>), Opt("Author", <<"a">>)>>
  /\ payloadLen = MaxPayload
  /\ received = Canonical

\* C6: the transport sees a clean end of the body only when every part was
\* written and read: the fields, the payload to the source's end, the boundary.
C6_CleanEndOnlyAfterAll ==
  seen = EOF =>
    /\ received = Canonical
    /\ wroteOK = Canonical
    /\ srcPos = payloadLen
    /\ prodErr = NoErr /\ ppc = Done

\* C6 witness: the body of a full-length payload ended cleanly and the transport
\* awaits the response.
C6_Witness == seen = EOF /\ pc = "do" /\ payloadLen = MaxPayload /\ Len(opts) > 0

\* C7 (the claim as made): upload succeeds exactly on a 201 whose body was read in
\* full, returning the trimmed body; every other status gives no URL and the
\* trimmed body as the error; never a URL and an error.
C7_Original ==
  (pc = "returned" /\ Uploading /\ ret.kind = "value") =>
    /\ ret.err = NoErr <=> (resp.status = 201 /\ resp.read = "ok")
    /\ ret.err = NoErr => ret.url = Trimmed(resp.body)
    /\ (resp.read # "none" /\ resp.status # 201) =>
         (ret.url = <<>> /\ ret.err = ErrorsNew(Trimmed(resp.body)))
    /\ ~(ret.url # <<>> /\ ret.err # NoErr)

\* C7 (amended): as C7, but the error of another status is the trimmed body only
\* when the body was read in full; when reading it fails, upload returns no URL
\* and the read error, whatever the status.
C7_UploadResult ==
  (pc = "returned" /\ Uploading /\ ret.kind = "value") =>
    /\ ret.err = NoErr <=> (resp.status = 201 /\ resp.read = "ok")
    /\ ret.err = NoErr => ret.url = Trimmed(resp.body)
    /\ (resp.read = "ok" /\ resp.status # 201) =>
         (ret.url = <<>> /\ ret.err = ErrorsNew(Trimmed(resp.body)))
    /\ resp.read = "failed" =>
         (ret.url = <<>> /\ ret.err = Err("response read error", <<>>))
    /\ ~(ret.url # <<>> /\ ret.err # NoErr)

\* C7 witness: a 201 whose body has blanks around the URL.
C7_Witness ==
  /\ pc = "returned" /\ resp.status = 201 /\ resp.body = <<" ", "u", " ">>
  /\ ret = RetUpload(<<"u">>, NoErr)

\* The claim's rule for a paste reference.
HasSchemeSep(s) == \E i \in 1..Len(s) : i + 2 <= Len(s) /\ <<s[i], s[i + 1], s[i + 2]>> = SchemeSep
NoBadChar(s) == \A i \in 1..Len(s) : s[i] \notin {".", "/", "#", "?"}
StartsWithPrefix(s) ==
  Len(s) >= Len(PastePrefix) /\ \A i \in 1..Len(PastePrefix) : s[i] = PastePrefix[i]
RefId(s) ==
  IF StartsWithPrefix(s) THEN [i \in 1..(Len(s) - Len(PastePrefix)) |-> s[Len(PastePrefix) + i]] ELSE s
ValidRef(s) ==
  IF HasSchemeSep(s) THEN StartsWithPrefix(s) /\ NoBadChar(RefId(s)) ELSE NoBadChar(s)

\* C8: a Get of a reference that is not valid returns the invalid-reference error
\* and hands no request to the transport.
C8_InvalidReferenceRejected ==
  (call = "Get" /\ pc # "init" /\ ~ValidRef(paste)) =>
    /\ pc = "returned"
    /\ ret = RetGet(ZeroInfo, ErrInvalidPaste)
    /\ requests = <<>>

\* C8 witness: a reference on the paste host whose identifier holds a forbidden
\* character was rejected.
C8_Witness ==
  /\ call = "Get" /\ pc = "returned"
  /\ StartsWithPrefix(paste) /\ ~NoBadChar(RefId(paste))
  /\ ret.err = ErrInvalidPaste

\* The base URL of the call without one trailing slash.
BaseOfCall ==
  LET b == LastOption(opts, "BaseURL", <<>>)
      base == IF b = <<>> THEN defaultBaseURL ELSE b
  IN IF Len(base) > 0 /\ base[Len(base)] = "/" THEN SubSeq(base, 1, Len(base) - 1) ELSE base

\* C9: for a valid identifier id, the Get of id and the Get of the paste host's
\* prefix followed by id hand the transport the same URL: the base URL without
\* one trailing slash, "/", id, "?raw" (no request when that URL does not parse).
\* RefId gives id for both forms of the reference.
C9_SameFetchURL ==
  (call = "Get" /\ pc # "init" /\ NoBadChar(RefId(paste))
     /\ paste \in {RefId(paste), PastePrefix \o RefId(paste)}) =>
    LET u == BaseOfCall \o <<"/">> \o RefId(paste) \o <<"?", "r", "a", "w">>
    IN IF URLParses(u)
       THEN Len(requests) = 1 /\ requests[1].url = u /\ requests[1].method = "GET"
       ELSE requests = <<>>

\* C9 witness: a full reference fetched from a base URL that ends in two slashes.
C9_Witness ==
  /\ call = "Get" /\ pc = "do"
  /\ paste = PastePrefix \o <<"a">>
  /\ requests[1].url = <<"h", ":", "/", "/", "b", "/", "/", "a", "?", "r", "a", "w">>

GetCall == call \in {"Get", "GetLanguages"}

\* C10 (the claim as made): Get and GetLanguages succeed exactly on status 200;
\* every other status gives no result and the trimmed body as the error.
C10_Original ==
  (GetCall /\ pc = "returned" /\ resp.status # 0) =>
    /\ ret.err = NoErr <=> resp.status = 200
    /\ resp.status # 200 =>
         /\ ret.info = ZeroInfo /\ ret.langs = NilLangs
         /\ ret.err = ErrorsNew(Trimmed(resp.body))

\* C10 (amended): Get succeeds exactly on status 200, GetLanguages exactly on a
\* 200 whose body decodes; every other status gives no result and, when its body
\* was read in full, the trimmed body as the error, else the read error.
C10_StatusDecides ==
  (GetCall /\ pc = "returned" /\ resp.status # 0) =>
    /\ call = "Get" => (ret.err = NoErr <=> resp.status = 200)
    /\ call = "GetLanguages" =>
         (ret.err = NoErr <=> (resp.status = 200 /\ resp.read = "ok" /\ JSONDecode(resp.body).ok))
    /\ ret.err # NoErr => (ret.info = ZeroInfo /\ ret.langs = NilLangs)
    /\ (resp.status # 200 /\ resp.read = "ok") => ret.err = ErrorsNew(Trimmed(resp.body))
    /\ (resp.status # 200 /\ resp.read = "failed") => ret.err = Err("response read error", <<>>)

\* C10 witness: GetLanguages got a 404 whose body has blanks around its text.
C10_Witness ==
  /\ call = "GetLanguages" /\ pc = "returned"
  /\ resp.status = 404 /\ resp.body = <<" ", "u">>
  /\ ret = RetLangs(NilLangs, ErrorsNew(<<"u">>))

\* The value a call pre-fills a field of the configuration with.
Prefilled(name) == IF call = "UploadFile" /\ name = "Title" THEN FileName ELSE <<>>

\* The call has applied its options.
Resolved ==
  \/ pc \in {"newreq", "do", "readall"}
  \/ pc = "returned" /\ ret # HeadersPanic /\ ret.err # Err("open error", <<>>)

\* C11: the extra-headers list of the configuration always has even length; a
\* Headers option of an odd number of strings never comes to exist, and when its
\* construction panics the configuration is untouched and the call has no
\* conduit, no producer, no request and no response.
C11_HeadersEven ==
  /\ Len(req.headers) % 2 = 0
  /\ \A i \in 1..Len(opts) : opts[i].name = "Headers" => Len(opts[i].val) % 2 = 0
  /\ ret = HeadersPanic =>
       /\ req = ZeroRequest /\ requests = <<>> /\ resp = NoResp
       /\ ppc = Idle /\ rerr = NoErr /\ werr = NoErr /\ pending = <<>>

\* An odd Headers list was rejected after another option had been made.
C11_Witness == ret = HeadersPanic /\ opts # <<>> /\ pc = "returned"

\* C12: once the options are applied, every field of the configuration holds the
\* value of the last option given for it, or the pre-filled value when none was:
\* later options override earlier ones and no option touches another's field.
C12_LastOptionWins ==
  Resolved =>
    req = [author  |-> LastOption(opts, "Author", Prefilled("Author")),
           title   |-> LastOption(opts, "Title", Prefilled("Title")),
           desc    |-> LastOption(opts, "Description", Prefilled("Description")),
           typ     |-> LastOption(opts, "Type", Prefilled("Type")),
           tok     |-> LastOption(opts, "Token", Prefilled("Token")),
           ctx     |-> LastOption(opts, "Context", Prefilled("Context")),
           client  |-> LastOption(opts, "Client", Prefilled("Client")),
           baseURL |-> LastOption(opts, "BaseURL", Prefilled("BaseURL")),
           headers |-> LastOption(opts, "Headers", Prefilled("Headers")),
           query   |-> LastOption(opts, "Query", Prefilled("Query"))]

\* Two options of one field were given, and the pre-filled title was overridden.
C12_Witness ==
  /\ pc = "do" /\ call = "UploadFile"
  /\ opts = <<Opt("Title", <<"t">>), Opt("Title", <<>>)>>
  /\ req.title = <<>>

\* C17: in the request handed to client.Do, an upload's Content-Type is the
\* multipart writer's content type and, when the token is not empty, the
\* Authorization of any call is "Bearer " and the token, whatever the extra
\* headers hold.
C17_FixedHeadersWin ==
  requests # <<>> =>
    LET q == requests[1]
        tok == LastOption(opts, "Token", <<>>)
    IN /\ call \in {"Upload", "UploadFile"} => q.header["Content-Type"] = ContentType
       /\ tok # <<>> => q.header["Authorization"] = <<"Bearer ">> \o tok

\* An upload whose extra headers hold both names was handed to client.Do.
C17_Witness ==
  /\ call = "Upload" /\ pc = "do"
  /\ opts = <<Opt("Headers", <<"Content-Type", "x", "AUTHORIZATION", "y">>), Opt("Token", <<"k">>)>>
  /\ requests[1].header["Authorization"] = <<"Bearer ", "k">>

\* The status a call takes for success.
SuccessStatus == IF call \in {"Upload", "UploadFile"} THEN StatusCreated ELSE StatusOK

\* C13: a call hands at most one request to client.Do; when client.Do failed
\* (a transport error, a cancellation) or the response is not the success status,
\* the call has returned an error and no result, with that one request made.
C13_AtMostOneRequest ==
  /\ Len(requests) <= 1
  /\ (pc = "returned" /\ ret.kind = "value" /\ requests # <<>> /\ resp.status # SuccessStatus) =>
       /\ ret.err # NoErr
       /\ ret.url = <<>> /\ ret.info = ZeroInfo /\ ret.langs = NilLangs

\* An upload returned its cancellation, a request made.
C13_Witness ==
  /\ pc = "returned" /\ call = "Upload"
  /\ ret.err = CancelError
  /\ Len(requests) = 1

\* C15: a returned PasteInfo carries the response body only after a Get that got
\* status 200, and that body is then neither closed nor read; every other call
\* that got a response has closed its body when it returns.
C15_BodyClosedOrHandedOver ==
  pc = "returned" =>
    /\ ret.info.Content # "nil" =>
         /\ call = "Get" /\ resp.status = StatusOK /\ ret.err = NoErr
    /\ (call = "Get" /\ resp.status = StatusOK) =>
         /\ ret.info.Content = "resp.Body"
         /\ ~resp.closed /\ resp.read = "none"
    /\ (resp.status # 0 /\ ~(call = "Get" /\ resp.status = StatusOK)) => resp.closed

\* A GetLanguages that decoded its 200 response has returned.
C15_Witness ==
  /\ pc = "returned" /\ call = "GetLanguages"
  /\ resp.status = StatusOK /\ ret.err = NoErr /\ resp.closed

\* The time a date header stands for: the zero time unless it is an HTTP date.
TimeOfHeader(v) == IF v = GoodDate THEN [zero |-> FALSE, at |-> GoodDate] ELSE ZeroTime

\* C14: a Get that got status 200 succeeds whatever its Created-At and Expires
\* headers hold; each of the two times is the header's date when it is an HTTP
\* date and the zero time otherwise, independently of the other, and the other
\* metadata are the response's.
C14_DateDegrades ==
  (call = "Get" /\ pc = "returned" /\ resp.status = 200) =>
    /\ ret.err = NoErr
    /\ ret.info.Created = TimeOfHeader(resp.header.CreatedAt)
    /\ ret.info.Expires = TimeOfHeader(resp.header.Expires)
    /\ ret.info.Content = "resp.Body"
    /\ ret.info.Size = resp.header.ContentLength
    /\ ret.info.Type = resp.header.ContentType
    /\ ret.info.Language = resp.header.PasteLanguage
    /\ ret.info.Class = resp.header.PasteClass
    /\ ret.info.Author = resp.header.CreatedBy
    /\ ret.info.Title = resp.header.PasteTitle

\* Created-At did not parse, Expires did: one zero time, one date, and a title.
C14_Witness ==
  /\ call = "Get" /\ pc = "returned" /\ resp.status = 200
  /\ resp.header.CreatedAt = <<"tomorrow">> /\ resp.header.Expires = GoodDate
  /\ ret.info.Created = ZeroTime /\ ~ret.info.Expires.zero
  /\ ret.info.Title = <<"t">>

\* C16 (the claim as made): once the call has returned, the producer completes
\* no further Read of the payload source: no bytes are taken from it and no Read
\* of it returns.
C16_NoReadAfterReturn ==
  [][pc = "returned" =>
       /\ srcPos' = srcPos
       /\ ~(ppc = At("copy", "read") /\ ppc' # ppc)]_vars

\* w.Close() returned nil: the closing boundary is the last Write that succeeded.
MultipartCloseOK == wroteOK # <<>> /\ wroteOK[Len(wroteOK)] = EndItem

\* C18: the producer closes the write end at most once, and exactly once when it
\* has exited: with the failure's error after a failure path, and otherwise with
\* the result of w.Close(), a clean end when that was nil.
C18_WriteEndClosedOnce ==
  /\ nClose <= 1
  /\ ppc = Done =>
       /\ nClose = 1
       /\ prodErr # NoErr => werr = prodErr
       /\ prodErr = NoErr => werr = (IF MultipartCloseOK THEN EOF ELSE ErrClosedPipe)

\* The producer has exited after the payload source failed.
C18_Witness ==
  /\ ppc = Done /\ prodErr = SrcErr
  /\ werr = SrcErr /\ nClose = 1 /\ bodywClosed

====
